---- MODULE Spec2Model ----
(***************************************************************************)
(* A model of qcengine/programs/molpro.py: the Molpro harness.             *)
(*                                                                         *)
(*   get_version   the version probe and its process-wide cache            *)
(*   compute       presence check, version floor, build_input, execute,    *)
(*                 FailedOperation or parse_output                         *)
(*   parse_output  job-step loop, spin decomposition, final energy         *)
(*                                                                         *)
(* Strings that the code slices or searches (job-step commands, method     *)
(* names) are tuples of characters.  Numbers are exact: a float x of the   *)
(* report is held as the integer 3x, so that (2.0/3.0)*x and (1.0/3.0)*x   *)
(* are integers too; floating-point rounding is not modelled.              *)
(***************************************************************************)
EXTENDS Integers, Sequences, FiniteSets, TLC

\* ------------------------------------------------------------------ bounds
MaxElements == 4
MaxAtoms == 2
MaxCalls == 2
NumCallers == 2

\* ----------------------------------------------------------------- strings
S_HF == <<"H", "F">>
S_RHF == <<"R", "H", "F">>
S_MP2 == <<"M", "P", "2">>
S_CCSD == <<"C", "C", "S", "D">>
S_CCSD_T == <<"C", "C", "S", "D", "(", "T", ")">>
S_FORCE == <<"F", "O", "R", "C", "E">>
S_SCF == <<"-", "S", "C", "F">>
S_KS == <<"K", "S">>

\* Python's `sub in s` on strings.
Contains(s, sub) ==
    \E i \in 1..(Len(s) - Len(sub) + 1) : SubSeq(s, i, i + Len(sub) - 1) = sub

\* Python's s[:-4].
DropLast4(s) == SubSeq(s, 1, Len(s) - 4)

\* ----------------------------------------------------------- Python values
PyFloat(x) == [type |-> "float", v |-> x]
PyList(s) == [type |-> "list", v |-> s]

\* float(text) of a one-number text; the model's unit is one third.
ToFloat(t) == PyFloat(3 * t)
\* [float(x) for x in text.split()]
ToFloatList(ts) == PyList([i \in 1..Len(ts) |-> 3 * ts[i]])

EmptyDict == [k \in {} |-> 0]
Put(d, k, val) == [x \in (DOMAIN d) \cup {k} |-> IF x = k THEN val ELSE d[x]]
Del(d, k) == [x \in (DOMAIN d) \ {k} |-> d[x]]

\* ------------------------------------------------ parse_output: the maps
scf_energy_map == [n \in {"Energy"} |-> "scf_total_energy"]
scf_dipole_map == [n \in {"Dipole moment"} |-> "scf_dipole_moment"]

PairNames ==
    {"total energy", "correlation energy", "singlet pair energy", "triplet pair energy"}

mp2_energy_map ==
    [n \in PairNames |->
        CASE n = "total energy" -> "mp2_total_energy"
          [] n = "correlation energy" -> "mp2_correlation_energy"
          [] n = "singlet pair energy" -> "mp2_singlet_pair_energy"
          [] n = "triplet pair energy" -> "mp2_triplet_pair_energy"]
mp2_dipole_map == [n \in {"Dipole moment"} |-> "mp2_dipole_moment"]

ccsd_energy_map ==
    [n \in PairNames |->
        CASE n = "total energy" -> "ccsd_total_energy"
          [] n = "correlation energy" -> "ccsd_correlation_energy"
          [] n = "singlet pair energy" -> "ccsd_singlet_pair_energy"
          [] n = "triplet pair energy" -> "ccsd_triplet_pair_energy"]
ccsd_dipole_map == [n \in {"Dipole moment"} |-> "ccsd_dipole_moment"]

scf_maps == [energy |-> scf_energy_map, dipole |-> scf_dipole_map, extras |-> EmptyDict]
mp2_maps == [energy |-> mp2_energy_map, dipole |-> mp2_dipole_map, extras |-> EmptyDict]
ccsd_maps == [energy |-> ccsd_energy_map, dipole |-> ccsd_dipole_map, extras |-> EmptyDict]

scf_methods == {S_HF, S_RHF}
post_hf_methods == {S_MP2, S_CCSD}
supported_methods ==
    [m \in scf_methods \cup post_hf_methods |->
        CASE m \in scf_methods -> scf_maps
          [] m = S_MP2 -> mp2_maps
          [] m = S_CCSD -> ccsd_maps]

\* ------------------------------------------- parse_output: the job-step loop
\* The command with its -SCF part removed: the last four characters go
\* whenever "-SCF" occurs anywhere in it.
NormalizeCommand(command) ==
    IF Contains(command, S_SCF) THEN DropLast4(command) ELSE command

\* The body of `for child in jobstep.findall('property')`: the energy map,
\* else the dipole map, else nothing.
ParseProperty(properties, maps, child) ==
    IF child.name \in DOMAIN maps.energy
    THEN Put(properties, maps.energy[child.name], ToFloat(child.data[1]))
    ELSE IF child.name \in DOMAIN maps.dipole
    THEN Put(properties, maps.dipole[child.name], ToFloatList(child.data))
    ELSE properties

\* The body of `for child in jobstep.findall('gradient')`.
ParseGradient(output_data, child) ==
    Put(output_data, "return_result", ToFloatList(child.data))

\* What one child element of a job step does to the two dictionaries.  The
\* code runs findall('property') in a step of a supported method and
\* findall('gradient') in a FORCE step; each keeps the children of its tag
\* in document order, so a step's children are handled one by one.
ParseChild(properties, output_data, command, child) ==
    IF NormalizeCommand(command) \in DOMAIN supported_methods
    THEN [properties |->
              IF child.tag = "property"
              THEN ParseProperty(properties,
                                 supported_methods[NormalizeCommand(command)], child)
              ELSE properties,
          output_data |-> output_data]
    ELSE IF Contains(command, S_FORCE)
    THEN [properties |-> properties,
          output_data |->
              IF child.tag = "gradient" THEN ParseGradient(output_data, child)
              ELSE output_data]
    ELSE [properties |-> properties, output_data |-> output_data]

RECURSIVE ChildLoop(_, _, _, _)
ChildLoop(properties, output_data, command, children) ==
    IF children = <<>> THEN [properties |-> properties, output_data |-> output_data]
    ELSE LET r == ParseChild(properties, output_data, command, Head(children))
         IN  ChildLoop(r.properties, r.output_data, command, Tail(children))

\* One iteration of the loop over the job steps.
ParseJobstep(properties, output_data, jobstep) ==
    ChildLoop(properties, output_data, jobstep.command, jobstep.children)

\* --------------------------------------- parse_output: spin decomposition
\* A bug: one third for two thirds.
MulTwoThirdsAsOneThird(x) == x \div 3

MulTwoThirds(x) == (2 * x) \div 3
MulOneThird(x) == x \div 3

SpinKeys(family) ==
    IF family = "mp2"
    THEN [singlet |-> "mp2_singlet_pair_energy", triplet |-> "mp2_triplet_pair_energy",
          same |-> "mp2_same_spin_correlation_energy",
          opposite |-> "mp2_opposite_spin_correlation_energy"]
    ELSE [singlet |-> "ccsd_singlet_pair_energy", triplet |-> "ccsd_triplet_pair_energy",
          same |-> "ccsd_same_spin_correlation_energy",
          opposite |-> "ccsd_opposite_spin_correlation_energy"]

SpinDecompose(properties, family) ==
    LET k == SpinKeys(family) IN
    IF k.singlet \in DOMAIN properties /\ k.triplet \in DOMAIN properties
    THEN LET same == PyFloat(MulTwoThirds(properties[k.triplet].v))
             opposite == PyFloat(MulOneThird(properties[k.triplet].v)
                                 + properties[k.singlet].v)
         IN  Del(Del(Put(Put(properties, k.same, same), k.opposite, opposite),
                     k.singlet), k.triplet)
    ELSE properties

\* ------------------------------------------ parse_output: the final energy
\* One part of an exception's argument: literal text or a substituted string.
Lit(s) == [lit |-> s, sub |-> <<>>]
Sub(s) == [lit |-> "", sub |-> s]
Raise(exc, arg) == [kind |-> "raise", exc |-> exc, arg |-> arg]

\* Result(**{**input_model.dict(), **output_data})
MakeResult(input_model, output_data) ==
    [kind |-> "Result",
     molecule |-> input_model.molecule, model |-> input_model.model,
     driver |-> input_model.driver,
     return_result |-> output_data["return_result"],
     properties |-> output_data["properties"],
     schema_name |-> output_data["schema_name"],
     success |-> output_data["success"]]

\* The name of the method's energy in its energy map (lines 265-268).
EnergyName(method) == IF method \in post_hf_methods THEN "total energy" ELSE "Energy"

\* A bug: the molecule tag's energy is taken whatever its method.
MoleculeMatchesAny(mol_method, method) == TRUE

\* Line 271: the molecule tag is for the requested method.
MoleculeMatches(mol_method, method) == mol_method = method

\* A bug: the difference the wrong way round.
CorrelationEnergyReversed(mol_final_energy, scf_total_energy) ==
    PyFloat(scf_total_energy.v - mol_final_energy.v)

\* Line 275: mol_final_energy - properties['scf_total_energy'].
CorrelationEnergy(mol_final_energy, scf_total_energy) ==
    PyFloat(mol_final_energy.v - scf_total_energy.v)

\* A bug: the final energy always replaces return_result.
SetReturnResultAlways(output_data, final_energy) ==
    Put(output_data, "return_result", final_energy)

\* A bug: the final energy is returned as a one-element list.
SetReturnResultAsList(output_data, final_energy) ==
    IF "return_result" \notin DOMAIN output_data
    THEN Put(output_data, "return_result", PyList(<<final_energy.v>>))
    ELSE output_data

\* Lines 281-283: return_result is the final energy unless a gradient is there.
SetReturnResult(output_data, final_energy) ==
    IF "return_result" \notin DOMAIN output_data
    THEN Put(output_data, "return_result", final_energy)
    ELSE output_data

\* A bug: a captured gradient is returned without an energy.
EnergyNotFoundKeepsGradient(properties, output_data, input_model) ==
    IF "return_result" \in DOMAIN output_data
    THEN MakeResult(input_model,
                    Put(Put(Put(output_data, "properties", properties),
                            "schema_name", "qcschema_output"), "success", TRUE))
    ELSE Raise("KeyError",
               <<Lit("Could not find "), Sub(input_model.model.method),
                 Lit(" total energy")>>)

\* Lines 278-279: no energy for the requested method.
EnergyNotFound(properties, output_data, input_model) ==
    Raise("KeyError",
          <<Lit("Could not find "), Sub(input_model.model.method), Lit(" total energy")>>)

\* Lines 256-289: from the molecule tag to the Result.
FinishParse(properties, output_data, molecule, input_model) ==
    LET mol_method == molecule.method
        mol_final_energy == ToFloat(molecule.energy)
        method == input_model.model.method
    IN
    IF method \notin DOMAIN supported_methods
    THEN Raise("KeyError", <<Sub(method)>>)
    ELSE
    LET method_energy_map == supported_methods[method].energy
        found ==
            \/ method \in post_hf_methods
               /\ method_energy_map["total energy"] \in DOMAIN properties
            \/ method \in scf_methods
               /\ method_energy_map["Energy"] \in DOMAIN properties
        Finish(final_energy, props) ==
            MakeResult(input_model,
                       Put(Put(Put(SetReturnResult(output_data, final_energy),
                                   "properties", props),
                               "schema_name", "qcschema_output"), "success", TRUE))
    IN
    IF found
    THEN Finish(properties[method_energy_map[EnergyName(method)]], properties)
    ELSE IF MoleculeMatches(mol_method, method)
    THEN IF method \in post_hf_methods
         THEN IF "scf_total_energy" \notin DOMAIN properties
              THEN Raise("KeyError", <<Lit("scf_total_energy")>>)
              ELSE Finish(mol_final_energy,
                          Put(Put(properties, method_energy_map["total energy"],
                                  mol_final_energy),
                              method_energy_map["correlation energy"],
                              CorrelationEnergy(mol_final_energy,
                                                properties["scf_total_energy"])))
         ELSE Finish(mol_final_energy,
                     Put(properties, method_energy_map["Energy"], mol_final_energy))
    ELSE EnergyNotFound(properties, output_data, input_model)

\* parse_output on a whole report: the loop, both decompositions, the rest.
RECURSIVE JobstepLoop(_, _, _)
JobstepLoop(properties, output_data, jobsteps) ==
    IF jobsteps = <<>> THEN [properties |-> properties, output_data |-> output_data]
    ELSE LET r == ParseJobstep(properties, output_data, Head(jobsteps))
         IN  JobstepLoop(r.properties, r.output_data, Tail(jobsteps))

Decompose(properties) == SpinDecompose(SpinDecompose(properties, "mp2"), "ccsd")

parse_output(report, input_model) ==
    LET r == JobstepLoop(EmptyDict, EmptyDict, report.jobsteps)
    IN  FinishParse(Decompose(r.properties), r.output_data, report.molecule, input_model)

\* ----------------------------------------------------------- get_version
\* A bug: minor and major the wrong way round.
MolproVersionSwapped(attrib) == <<attrib.minor, ".", attrib.major>>

\* The platform/version element of version.xml: its major and minor.
\* year + "." + minor, which safe_version leaves as it is.
MolproVersion(attrib) == <<attrib.major, ".", attrib.minor>>

\* parse_version: the release numbers of a version string.
parse_version(version) == <<version[1], version[3]>>
VersionLess(a, b) == a[1] < b[1] \/ (a[1] = b[1] /\ a[2] < b[2])

MinVersion == <<2018, ".", 1>>
\* A bug: the comparison the wrong way round.
BelowFloorSwapped(version) ==
    VersionLess(parse_version(MinVersion), parse_version(version))

\* parse_version(self.get_version()) < parse_version("2018.1")
BelowFloor(version) == VersionLess(parse_version(version), parse_version(MinVersion))

\* ----------------------------------------------------------- build_input
LowerChar(c) ==
    CASE c = "H" -> "h" [] c = "F" -> "f" [] c = "R" -> "r" [] c = "M" -> "m"
      [] c = "P" -> "p" [] c = "C" -> "c" [] c = "S" -> "s" [] c = "D" -> "d"
      [] c = "T" -> "t" [] OTHER -> c
Lower(str) == [i \in 1..Len(str) |-> LowerChar(str[i])]

posthf_methods == {Lower(S_MP2), Lower(S_CCSD), Lower(S_CCSD_T)}

\* One line of the input file: a format string and what it is filled with.
Line(text, args) == [text |-> text, args |-> args]

\* int(config.memory * (1024 ** 3) / 8e6 / config.ncores), 2^30/8e6 in lowest terms.
MemoryMwCore(config) == (config.memory * 16777216) \div (125000 * config.ncores)

GeometryLines(mol) ==
    [i \in 1..Len(mol.symbols) |->
        Line("{:<4s} {:>14.10f} {:>14.10f} {:>14.10f}",
             <<mol.symbols[i]>> \o mol.geometry[i])]

build_input(input_model, config) ==
    LET write_hf == Lower(input_model.model.method) \in posthf_methods
        input_file ==
            <<Line("!Title", <<>>),
              Line("memory,{},M", <<MemoryMwCore(config)>>),
              Line("", <<>>),
              Line("{symmetry,nosym}", <<>>),
              Line("", <<>>),
              Line("geometry={", <<>>)>>
            \o GeometryLines(input_model.molecule)
            \o <<Line("}", <<>>),
                 Line("set,charge={}", <<input_model.molecule.molecular_charge>>),
                 Line("set,multiplicity={}", <<input_model.molecule.molecular_multiplicity>>),
                 Line("", <<>>),
                 Line("basis={", <<>>),
                 Line("default,{}", <<input_model.model.basis>>),
                 Line("}", <<>>),
                 Line("", <<>>)>>
            \o (IF write_hf THEN <<Line("{HF}", <<>>)>> ELSE <<>>)
            \o <<Line("{{{:s}}}", <<input_model.model.method>>)>>
            \o (IF input_model.driver = "gradient"
                THEN <<Line("", <<>>), Line("{force}", <<>>)>> ELSE <<>>)
    IN  [commands |-> <<"molpro", "dispatch.mol", "-d", ".", "-W", ".", "-n",
                        config.ncores>>,
         infiles |-> [n \in {"dispatch.mol"} |-> input_file],
         scratch_location |-> config.scratch_directory,
         input_result |-> input_model]

\* ------------------------------------------------------ compute: failure
\* A bug: error_type and error_message the wrong way round.
MakeFailedOperationSwapped(proc) ==
    [kind |-> "FailedOperation", success |-> FALSE,
     error |-> [error_type |-> proc.stderr, error_message |-> "internal_error"],
     input_data |-> EmptyDict]

\* Lines 79-86: the FailedOperation built from the failed execution.
MakeFailedOperation(proc) ==
    LET output_data ==
            Put(Put(EmptyDict, "success", FALSE),
                "error", [error_type |-> "internal_error",
                          error_message |-> proc.stderr])
    IN  [kind |-> "FailedOperation",
         success |-> output_data["success"],
         error |-> output_data["error"],
         input_data |-> Del(Del(output_data, "success"), "error")]

\* ------------------------------------------------------------- the inputs
Drivers == {"energy", "gradient"}
Methods == {S_HF, S_RHF, S_MP2, S_CCSD, S_CCSD_T}
Molecule(n) ==
    [symbols |-> [i \in 1..n |-> "H"],
     geometry |-> [i \in 1..n |-> <<0, 0, i - 1>>],
     molecular_charge |-> 0,
     molecular_multiplicity |-> 1]
Requests ==
    {[molecule |-> Molecule(n), model |-> [method |-> m, basis |-> "sto-3g"],
      driver |-> d] : n \in 1..MaxAtoms, m \in Methods, d \in Drivers}
AtomCount(im) == Len(im.molecule.symbols)
Configs ==
    {[memory |-> 1, ncores |-> 1, scratch_directory |-> "None"],
     [memory |-> 2, ncores |-> 4, scratch_directory |-> "/scratch"]}

\* The numbers a report's attributes and texts hold.
Numbers == {-2, -1}
MoleculeEnergies == {-3}
Commands ==
    {S_HF, S_RHF \o S_SCF, S_KS \o S_SCF, S_MP2, S_CCSD, S_FORCE}
PropertyNames == PairNames \cup {"Energy", "Dipole moment", "Orbital energy"}
Property(n, data) == [tag |-> "property", name |-> n, data |-> data]
Gradient(n) == [tag |-> "gradient", name |-> "", data |-> [i \in 1..n |-> -i]]
PropertyElements ==
    {Property(n, <<x>>) : n \in PropertyNames \ {"Dipole moment"}, x \in Numbers}
    \cup {Property("Dipole moment", <<0, 0, -1>>)}
GradientElements == {Gradient(n) : n \in {3 * k : k \in 1..MaxAtoms} \cup {2}}
Elements == PropertyElements \cup GradientElements
Molecules == {[method |-> m, energy |-> x] : m \in Methods, x \in MoleculeEnergies}

\* Reports the executable hands back to compute: a sample of what Molpro
\* writes, with and without the property blocks of a step.
Jobstep(c, children) == [command |-> c, children |-> children]
SampleJobsteps ==
    {<<>>,
     <<Jobstep(S_HF \o S_SCF, <<Property("Energy", <<-1>>)>>)>>,
     <<Jobstep(S_RHF \o S_SCF, <<>>)>>,
     <<Jobstep(S_HF \o S_SCF, <<Property("Energy", <<-1>>)>>),
       Jobstep(S_MP2, <<Property("total energy", <<-2>>),
                        Property("singlet pair energy", <<-1>>),
                        Property("triplet pair energy", <<-1>>)>>)>>,
     <<Jobstep(S_HF \o S_SCF, <<Property("Energy", <<-1>>)>>),
       Jobstep(S_CCSD, <<>>)>>,
     <<Jobstep(S_HF \o S_SCF, <<Property("Energy", <<-1>>)>>),
       Jobstep(S_FORCE, <<Gradient(3)>>)>>}
SampleReports ==
    {[jobsteps |-> js, molecule |-> m] : js \in SampleJobsteps, m \in Molecules}
Stderrs == {"", "molpro: i/o error"}

\* The installation: where `which` finds molpro, and the version there.
Paths == {"/opt/molpro/bin/molpro", "/usr/local/bin/molpro"}
NoPath == "None"
Versions == {[major |-> 2017, minor |-> 1], [major |-> 2018, minor |-> 1],
             [major |-> 2019, minor |-> 2]}

Threads == 1..NumCallers
Main == 1

\* ------------------------------------------------------------------ state
VARIABLES
    env_path,      \* what which('molpro') resolves to during the call
    installed,     \* the version of the executable at each path
    version_cache, \* MolproHarness.version_cache
    pc,            \* per thread: where it is
    ret,           \* per thread: where get_version returns to
    which_prog,    \* per thread: get_version's which_prog
    probe,         \* per thread: get_version's (success, output)
    got,           \* per thread: what get_version returned or raised
    calls,         \* calls made so far
    probes,        \* history: per path, executions of version.inp
    misses,        \* history: per path, times line 40 found the key missing
    hits,          \* history: per path, times line 40 found the key
    input_model,   \* the request handed to compute / parse_output
    config,        \* the job configuration handed to compute
    job_inputs,    \* compute: what build_input returned
    proc,          \* compute: what execute returned for the main job
    main_execs,    \* history: executions of dispatch.mol in this call
    parse_calls,   \* history: calls of parse_output in this call
    properties,    \* parse_output: what the job-step loop captured
    output_data,   \* parse_output: return_result once a gradient is captured
    command,       \* parse_output: the command of the job step being read
    nelements,     \* parse_output: elements of the report read so far
    molecule,      \* parse_output: the report's molecule tag, once read
    result,        \* what parse_output returned or raised
    outcome        \* what compute returned or raised

envVars == <<env_path, installed>>
gvVars == <<version_cache, which_prog, probe, got, probes, misses, hits>>
computeVars == <<input_model, config, job_inputs, proc, main_execs, parse_calls, outcome>>
parseVars == <<properties, output_data, command, nelements, molecule, result>>
vars == <<envVars, gvVars, computeVars, parseVars, pc, ret, calls>>

None == [kind |-> "None"]
Return(val) == [kind |-> "return", value |-> val]
Goto(t, where) == pc' = [pc EXCEPT ![t] = where]

\* ------------------------------------------------------------ get_version
\* A bug: the cache is never consulted.
CacheMissAlways(cache, path) == TRUE

\* Line 40: which_prog not in self.version_cache.
CacheMiss(cache, path) == path \notin DOMAIN cache

\* A caller enters get_version, with molpro found at path p or nowhere.
GvEnter(t, p) ==
    /\ pc[t] = "idle"
    /\ calls < MaxCalls
    /\ calls' = calls + 1
    /\ env_path' = p
    /\ pc' = [pc EXCEPT ![t] = "gv_found"]
    /\ ret' = [ret EXCEPT ![t] = "gv_caller"]
    /\ UNCHANGED <<installed, gvVars, computeVars, parseVars>>

GvCall(t) == \E p \in Paths \cup {NoPath} : GvEnter(t, p)

\* The same while other threads are inside get_version: the installation
\* stays what it is.
GvCallSamePath(t) == GvEnter(t, env_path)

\* A call has ended and its caller has looked at what it gave: the locals
\* of the call are gone.
Discard(t) ==
    /\ pc[t] = "done"
    /\ Goto(t, "idle")
    /\ which_prog' = [which_prog EXCEPT ![t] = NoPath]
    /\ probe' = [probe EXCEPT ![t] = None]
    /\ got' = [got EXCEPT ![t] = None]
    /\ input_model' = None
    /\ config' = None
    /\ job_inputs' = None
    /\ proc' = None
    /\ main_execs' = 0
    /\ parse_calls' = 0
    /\ outcome' = None
    /\ properties' = EmptyDict
    /\ output_data' = EmptyDict
    /\ command' = <<>>
    /\ nelements' = 0
    /\ molecule' = None
    /\ result' = None
    /\ UNCHANGED <<envVars, version_cache, probes, misses, hits, ret, calls>>

\* Lines 36-40: found(raise_error=True), which('molpro'), the cache lookup.
GvLookup(t) ==
    /\ pc[t] = "gv_found"
    /\ IF env_path = NoPath
       THEN /\ got' = [got EXCEPT ![t] =
                          Raise("ModuleNotFoundError",
                                <<Lit("Please install via https://www.molpro.net/")>>)]
            /\ Goto(t, ret[t])
            /\ UNCHANGED <<which_prog, misses, hits>>
       ELSE /\ which_prog' = [which_prog EXCEPT ![t] = env_path]
            /\ IF CacheMiss(version_cache, env_path)
               THEN /\ misses' = [misses EXCEPT ![env_path] = @ + 1]
                    /\ Goto(t, "gv_exec")
                    /\ UNCHANGED hits
               ELSE /\ hits' = [hits EXCEPT ![env_path] = @ + 1]
                    /\ Goto(t, "gv_return")
                    /\ UNCHANGED misses
            /\ UNCHANGED got
    /\ UNCHANGED <<envVars, version_cache, probe, probes, computeVars, parseVars, ret, calls>>

\* Lines 41-43: execute version.inp; it succeeds or fails.
GvExecute(t) ==
    /\ pc[t] = "gv_exec"
    /\ \E success \in BOOLEAN :
          probe' = [probe EXCEPT ![t] =
                       [kind |-> "proc", success |-> success,
                        output |-> IF success
                                   THEN [kind |-> "version.xml",
                                         version |-> installed[which_prog[t]]]
                                   ELSE None]]
    /\ probes' = [probes EXCEPT ![which_prog[t]] = @ + 1]
    /\ Goto(t, "gv_store")
    /\ UNCHANGED <<envVars, version_cache, which_prog, got, misses, hits,
                   computeVars, parseVars, ret, calls>>

\* Lines 45-52: on success the cache entry is written.
GvStore(t) ==
    /\ pc[t] = "gv_store"
    /\ IF probe[t].success
       THEN version_cache' = Put(version_cache, which_prog[t],
                                 MolproVersion(probe[t].output.version))
       ELSE UNCHANGED version_cache
    /\ Goto(t, "gv_return")
    /\ UNCHANGED <<envVars, which_prog, probe, got, probes, misses, hits,
                   computeVars, parseVars, ret, calls>>

\* Line 54: return self.version_cache[which_prog].
GvReturn(t) ==
    /\ pc[t] = "gv_return"
    /\ got' = [got EXCEPT ![t] =
                  IF which_prog[t] \in DOMAIN version_cache
                  THEN Return(version_cache[which_prog[t]])
                  ELSE Raise("KeyError", <<Lit(which_prog[t])>>)]
    /\ Goto(t, ret[t])
    /\ UNCHANGED <<envVars, version_cache, which_prog, probe, probes, misses, hits,
                   computeVars, parseVars, ret, calls>>

\* The caller of get_version has its answer.
GvDone(t) ==
    /\ pc[t] = "gv_caller"
    /\ Goto(t, "done")
    /\ UNCHANGED <<envVars, gvVars, computeVars, parseVars, ret, calls>>

\* ---------------------------------------------------------------- compute
ComputeCall ==
    /\ pc[Main] = "idle"
    /\ calls < MaxCalls
    /\ calls' = calls + 1
    /\ \E p \in Paths \cup {NoPath} : env_path' = p
    /\ \E im \in Requests, cf \in Configs :
          /\ input_model' = im
          /\ config' = cf
    /\ Goto(Main, "c_found")
    /\ UNCHANGED <<installed, gvVars, job_inputs, proc, main_execs, parse_calls,
                   outcome, parseVars, ret>>

\* Line 61: self.found(raise_error=True); then get_version is entered (line 64).
ComputeFound ==
    /\ pc[Main] = "c_found"
    /\ IF env_path = NoPath
       THEN /\ outcome' = Raise("ModuleNotFoundError",
                                <<Lit("Please install via https://www.molpro.net/")>>)
            /\ Goto(Main, "done")
            /\ UNCHANGED ret
       ELSE /\ Goto(Main, "gv_found")
            /\ ret' = [ret EXCEPT ![Main] = "c_compare"]
            /\ UNCHANGED outcome
    /\ UNCHANGED <<envVars, gvVars, input_model, config, job_inputs, proc, main_execs,
                   parse_calls, parseVars, calls>>

\* Line 64: the version floor.  Below it, line 65 asks get_version again
\* for the message.
ComputeCompare ==
    /\ pc[Main] = "c_compare"
    /\ IF got[Main].kind = "raise"
       THEN /\ outcome' = got[Main]
            /\ Goto(Main, "done")
            /\ UNCHANGED ret
       ELSE IF BelowFloor(got[Main].value)
       THEN /\ Goto(Main, "gv_found")
            /\ ret' = [ret EXCEPT ![Main] = "c_reject"]
            /\ UNCHANGED outcome
       ELSE /\ Goto(Main, "c_build")
            /\ UNCHANGED <<ret, outcome>>
    /\ UNCHANGED <<envVars, gvVars, input_model, config, job_inputs, proc, main_execs,
                   parse_calls, parseVars, calls>>

\* Line 65: raise TypeError("Molpro version '{}' not supported").
ComputeReject ==
    /\ pc[Main] = "c_reject"
    /\ outcome' =
          IF got[Main].kind = "raise" THEN got[Main]
          ELSE Raise("TypeError", <<Lit("Molpro version '"), Sub(got[Main].value),
                                    Lit("' not supported")>>)
    /\ Goto(Main, "done")
    /\ UNCHANGED <<envVars, gvVars, input_model, config, job_inputs, proc, main_execs,
                   parse_calls, parseVars, ret, calls>>

\* Line 68: job_inputs = self.build_input(input_data, config).
ComputeBuild ==
    /\ pc[Main] = "c_build"
    /\ job_inputs' = build_input(input_model, config)
    /\ Goto(Main, "c_execute")
    /\ UNCHANGED <<envVars, gvVars, input_model, config, proc, main_execs, parse_calls,
                   outcome, parseVars, ret, calls>>

\* Lines 71-76: execute dispatch.mol; it fails with some stderr or succeeds
\* with some report.
ComputeExecute ==
    /\ pc[Main] = "c_execute"
    /\ main_execs' = main_execs + 1
    /\ \/ \E stderr \in Stderrs :
             /\ proc' = [kind |-> "proc", success |-> FALSE, stderr |-> stderr]
             /\ Goto(Main, "c_failed")
       \/ \E report \in SampleReports :
             /\ proc' = [kind |-> "proc", success |-> TRUE, report |-> report]
             /\ Goto(Main, "c_parse")
    /\ UNCHANGED <<envVars, gvVars, input_model, config, job_inputs, parse_calls,
                   outcome, parseVars, ret, calls>>

\* Lines 79-86: the execution failed.
ComputeFailed ==
    /\ pc[Main] = "c_failed"
    /\ outcome' = MakeFailedOperation(proc)
    /\ Goto(Main, "done")
    /\ UNCHANGED <<envVars, gvVars, input_model, config, job_inputs, proc, main_execs,
                   parse_calls, parseVars, ret, calls>>

\* Line 89: result = self.parse_output(proc["outfiles"], input_data).
ComputeParse ==
    /\ pc[Main] = "c_parse"
    /\ parse_calls' = parse_calls + 1
    /\ LET r == JobstepLoop(EmptyDict, EmptyDict, proc.report.jobsteps)
       IN  /\ properties' = r.properties
           /\ output_data' = r.output_data
    /\ molecule' = proc.report.molecule
    /\ result' = parse_output(proc.report, input_model)
    /\ Goto(Main, "c_return")
    /\ UNCHANGED <<envVars, gvVars, input_model, config, job_inputs, proc, main_execs,
                   outcome, command, nelements, ret, calls>>

\* Line 90: return result; an exception of parse_output passes through.
ComputeReturn ==
    /\ pc[Main] = "c_return"
    /\ outcome' = result
    /\ Goto(Main, "done")
    /\ UNCHANGED <<envVars, gvVars, input_model, config, job_inputs, proc, main_execs,
                   parse_calls, parseVars, ret, calls>>

\* ----------------------------------------------------------- parse_output
\* for jobstep in root.findall('job/jobstep'): the next job step begins.
ReadJobstep ==
    /\ pc[Main] = "parse_loop"
    /\ nelements < MaxElements
    /\ \E c \in Commands : command' = c
    /\ nelements' = nelements + 1
    /\ UNCHANGED <<envVars, gvVars, computeVars, properties, output_data, molecule,
                   result, pc, ret, calls>>

\* The next child element of the job step being read.
ReadChild ==
    /\ pc[Main] = "parse_loop"
    /\ command # <<>>
    /\ nelements < MaxElements
    /\ \E child \in Elements :
          LET r == ParseChild(properties, output_data, command, child)
          IN  /\ properties' = r.properties
              /\ output_data' = r.output_data
    /\ nelements' = nelements + 1
    /\ UNCHANGED <<envVars, gvVars, computeVars, command, molecule, result, pc, ret,
                   calls>>

\* The report has no further job step: lines 239-289.
ParseFinish ==
    /\ pc[Main] = "parse_loop"
    /\ \E mol \in Molecules :
          /\ molecule' = mol
          /\ result' = FinishParse(Decompose(properties), output_data, mol, input_model)
    /\ Goto(Main, "c_return")
    /\ UNCHANGED <<envVars, gvVars, computeVars, properties, output_data, command,
                   nelements, ret, calls>>

\* --------------------------------------------------------- specifications
InitShared ==
    /\ installed \in [Paths -> Versions]
    /\ version_cache = EmptyDict
    /\ ret = [t \in Threads |-> "gv_caller"]
    /\ which_prog = [t \in Threads |-> NoPath]
    /\ probe = [t \in Threads |-> None]
    /\ got = [t \in Threads |-> None]
    /\ calls = 0
    /\ probes = [p \in Paths |-> 0]
    /\ misses = [p \in Paths |-> 0]
    /\ hits = [p \in Paths |-> 0]
    /\ input_model = None
    /\ config = None
    /\ job_inputs = None
    /\ proc = None
    /\ main_execs = 0
    /\ parse_calls = 0
    /\ properties = EmptyDict
    /\ output_data = EmptyDict
    /\ command = <<>>
    /\ nelements = 0
    /\ molecule = None
    /\ result = None
    /\ outcome = None

\* One thread calls compute and get_version, one call after the other.
Init ==
    /\ InitShared
    /\ env_path \in Paths \cup {NoPath}
    /\ pc = [t \in Threads |-> IF t = Main THEN "idle" ELSE "off"]

Next ==
    \/ GvCall(Main) \/ GvLookup(Main) \/ GvExecute(Main) \/ GvStore(Main)
    \/ GvReturn(Main) \/ GvDone(Main)
    \/ ComputeCall \/ ComputeFound \/ ComputeCompare \/ ComputeReject
    \/ ComputeBuild \/ ComputeExecute \/ ComputeFailed \/ ComputeParse
    \/ ComputeReturn \/ Discard(Main)

Spec == Init /\ [][Next]_vars

\* Several threads call get_version for one installation.
InitConc ==
    /\ InitShared
    /\ env_path \in Paths
    /\ pc = [t \in Threads |-> "idle"]

NextConc ==
    \E t \in Threads :
        GvCallSamePath(t) \/ GvLookup(t) \/ GvExecute(t) \/ GvStore(t) \/ GvReturn(t) \/ GvDone(t) \/ Discard(t)

SpecConc == InitConc /\ [][NextConc]_vars

\* compute from the point where the main job has succeeded: parse_output on
\* every report of up to MaxElements elements, read element by element, and
\* compute's return of what it gives.
ParsePath == "/opt/molpro/bin/molpro"
ParseConfig == [memory |-> 1, ncores |-> 1, scratch_directory |-> "None"]

InitParse ==
    /\ env_path = ParsePath
    /\ installed = [p \in Paths |-> [major |-> 2018, minor |-> 1]]
    /\ version_cache = [p \in {ParsePath} |-> MolproVersion(installed[p])]
    /\ pc = [t \in Threads |-> IF t = Main THEN "parse_loop" ELSE "off"]
    /\ ret = [t \in Threads |-> IF t = Main THEN "c_compare" ELSE "gv_caller"]
    /\ which_prog = [t \in Threads |-> IF t = Main THEN ParsePath ELSE NoPath]
    /\ probe = [t \in Threads |->
                  IF t = Main
                  THEN [kind |-> "proc", success |-> TRUE,
                        output |-> [kind |-> "version.xml",
                                    version |-> installed[ParsePath]]]
                  ELSE None]
    /\ got = [t \in Threads |->
                IF t = Main THEN Return(version_cache[ParsePath]) ELSE None]
    /\ calls = 1
    /\ probes = [p \in Paths |-> IF p = ParsePath THEN 1 ELSE 0]
    /\ misses = [p \in Paths |-> IF p = ParsePath THEN 1 ELSE 0]
    /\ hits = [p \in Paths |-> 0]
    /\ input_model \in Requests
    /\ config = ParseConfig
    /\ job_inputs = build_input(input_model, config)
    /\ proc = [kind |-> "proc", success |-> TRUE]
    /\ main_execs = 1
    /\ parse_calls = 1
    /\ properties = EmptyDict
    /\ output_data = EmptyDict
    /\ command = <<>>
    /\ nelements = 0
    /\ molecule = None
    /\ result = None
    /\ outcome = None

NextParse == ReadJobstep \/ ReadChild \/ ParseFinish \/ ComputeReturn

SpecParse == InitParse /\ [][NextParse]_vars

\* ================================================================ claims
\* What the formulas below read.
Supported(method) == method \in {S_HF, S_RHF, S_MP2, S_CCSD}
TotalKey(method) ==
    CASE method = S_HF -> "scf_total_energy"
      [] method = S_RHF -> "scf_total_energy"
      [] method = S_MP2 -> "mp2_total_energy"
      [] method = S_CCSD -> "ccsd_total_energy"
      [] OTHER -> "none"
CorrelationKey(method) ==
    IF method = S_MP2 THEN "mp2_correlation_energy" ELSE "ccsd_correlation_energy"
PostHF(method) == method \in {S_MP2, S_CCSD}
Requested == input_model.model.method
\* parse_output has returned or raised.
Parsed == pc[Main] \in {"c_return", "done"} /\ parse_calls = 1
GradientCaptured == "return_result" \in DOMAIN output_data
EnergyCaptured == Supported(Requested) /\ TotalKey(Requested) \in DOMAIN properties
AtLeastFloor(v) == v.major > 2018 \/ (v.major = 2018 /\ v.minor >= 1)
Expected(p) == <<installed[p].major, ".", installed[p].minor>>

\* C1: the main job is executed only when molpro was found and its version
\* is at least 2018.1; a compute call whose probe gave a lower version ends
\* in the TypeError and has not executed the main job.
C1_VersionGate ==
    /\ main_execs > 0 =>
          /\ which_prog[Main] \in DOMAIN version_cache
          /\ AtLeastFloor(installed[which_prog[Main]])
    /\ (/\ pc[Main] = "done"
        /\ ret[Main] # "gv_caller"
        /\ got[Main].kind = "return"
        /\ ~AtLeastFloor(installed[which_prog[Main]])) =>
          /\ outcome.kind = "raise"
          /\ outcome.exc = "TypeError"
          /\ main_execs = 0

\* C1's case: compute has rejected a 2017.1 installation.
C1_Witness ==
    /\ pc[Main] = "done"
    /\ outcome.kind = "raise"
    /\ outcome.exc = "TypeError"
    /\ installed[which_prog[Main]] = [major |-> 2017, minor |-> 1]
    /\ main_execs = 0

\* C2 as stated: in any sequence of get_version calls the executable is
\* probed by the first call for a path only, never by a later one.
C2_Original == \A p \in Paths : probes[p] <= 1

\* C2, amended: once the cache holds an entry for a path it is never removed
\* or changed, no further probe is executed for that path, and every
\* get_version for that path returns the cached string; a get_version that
\* ends with no entry for its path raises KeyError.
C2_CacheIdempotent ==
    [][/\ \A p \in DOMAIN version_cache :
             /\ p \in DOMAIN version_cache'
             /\ version_cache'[p] = version_cache[p]
             /\ probes'[p] = probes[p]
       /\ \A t \in Threads :
             (pc[t] = "gv_return" /\ pc'[t] # "gv_return") =>
                IF which_prog[t] \in DOMAIN version_cache
                THEN got'[t] = Return(version_cache[which_prog[t]])
                ELSE got'[t].kind = "raise" /\ got'[t].exc = "KeyError"]_vars

\* C2's case: a later call for a path has been answered from the cache.
C2_Witness ==
    \E p \in Paths :
        /\ p \in DOMAIN version_cache
        /\ hits[p] >= 1
        /\ probes[p] = 1
        /\ pc[Main] = "done"
        /\ ret[Main] = "gv_caller"
        /\ got[Main] = Return(Expected(p))

\* C3: when the main job fails, compute returns a FailedOperation with
\* success false and the captured stderr as error_message, parse_output is
\* not called, and the main job was executed exactly once.
C3_FailureRecord ==
    /\ outcome.kind = "FailedOperation" =>
          /\ outcome.success = FALSE
          /\ outcome.error.error_message = proc.stderr
          /\ parse_calls = 0
          /\ main_execs = 1
    /\ (proc.kind = "proc" /\ ~proc.success) =>
          /\ pc[Main] \in {"c_failed", "done"}
          /\ parse_calls = 0
          /\ main_execs = 1
          /\ pc[Main] = "done" => outcome.kind = "FailedOperation"

\* C3's case: a failed main job with a non-empty stderr has been returned.
C3_Witness ==
    /\ pc[Main] = "done"
    /\ outcome.kind = "FailedOperation"
    /\ outcome.error.error_message = "molpro: i/o error"

\* C4 as stated: when the requested method's total energy was not captured
\* and the molecule tag has the requested method, parse_output returns the
\* molecule energy as return_result, stores it under the total-energy key
\* and, for MP2 and CCSD, stores molecule energy - scf_total_energy as the
\* correlation energy.
C4_Original ==
    (/\ Parsed
     /\ Supported(Requested)
     /\ ~EnergyCaptured
     /\ molecule.method = Requested) =>
        /\ result.kind = "Result"
        /\ result.return_result.type = "float"
        /\ result.return_result.v = 3 * molecule.energy
        /\ result.properties[TotalKey(Requested)].v = 3 * molecule.energy
        /\ PostHF(Requested) =>
              result.properties[CorrelationKey(Requested)].v
                  = 3 * molecule.energy - properties["scf_total_energy"].v

\* C4, amended: in that case, for MP2 and CCSD without a captured
\* scf_total_energy parse_output raises KeyError('scf_total_energy');
\* otherwise it returns a Result with the molecule energy under the
\* total-energy key, for MP2 and CCSD molecule energy - scf_total_energy as
\* the correlation energy, and as return_result the molecule energy, or the
\* captured gradient when there is one.
C4_Fallback ==
    (/\ Parsed
     /\ Supported(Requested)
     /\ ~EnergyCaptured
     /\ molecule.method = Requested) =>
        IF PostHF(Requested) /\ "scf_total_energy" \notin DOMAIN properties
        THEN /\ result.kind = "raise"
             /\ result.exc = "KeyError"
             /\ result.arg = <<Lit("scf_total_energy")>>
        ELSE /\ result.kind = "Result"
             /\ result.properties[TotalKey(Requested)].v = 3 * molecule.energy
             /\ PostHF(Requested) =>
                   result.properties[CorrelationKey(Requested)].v
                       = 3 * molecule.energy - properties["scf_total_energy"].v
             /\ IF GradientCaptured
                THEN result.return_result = output_data["return_result"]
                ELSE /\ result.return_result.type = "float"
                     /\ result.return_result.v = 3 * molecule.energy

\* C4's case: the fallback has given an MP2 energy and correlation energy.
C4_Witness ==
    /\ Parsed
    /\ Requested = S_MP2
    /\ ~EnergyCaptured
    /\ molecule.method = S_MP2
    /\ "scf_total_energy" \in DOMAIN properties
    /\ result.kind = "Result"
    /\ "mp2_correlation_energy" \in DOMAIN result.properties
    /\ result.properties["mp2_total_energy"].v
           # result.properties["scf_total_energy"].v

\* C5: when no job step gave the requested method's total energy and the
\* molecule tag has another method, parse_output raises a KeyError that
\* names the requested method, and compute raises the same to its caller.
C5_MismatchRaises ==
    (/\ Parsed
     /\ ~EnergyCaptured
     /\ molecule.method # Requested) =>
        /\ result.kind = "raise"
        /\ result.exc = "KeyError"
        /\ \E i \in DOMAIN result.arg : result.arg[i] = Sub(Requested)
        /\ pc[Main] = "done" => outcome = result

\* C5's case: compute has raised the KeyError for MP2 although the report
\* held an SCF energy.
C5_Witness ==
    /\ pc[Main] = "done"
    /\ Requested = S_MP2
    /\ "scf_total_energy" \in DOMAIN properties
    /\ outcome.kind = "raise"
    /\ outcome.arg = <<Lit("Could not find "), Sub(S_MP2), Lit(" total energy")>>

\* C6 as stated: with driver energy, whatever job steps the report has, a
\* returned Result has a scalar return_result equal to the energy stored
\* under the requested method's total-energy key.
C6_Original ==
    (Parsed /\ input_model.driver = "energy" /\ result.kind = "Result") =>
        /\ result.return_result.type = "float"
        /\ result.return_result.v = result.properties[TotalKey(Requested)].v

\* C6, amended: with driver energy a returned Result has the energy under
\* the requested method's total-energy key, and return_result is that
\* scalar when no gradient was captured; a gradient captured from a FORCE
\* step is returned as return_result whatever the driver.
C6_EnergyResult ==
    (Parsed /\ input_model.driver = "energy" /\ result.kind = "Result") =>
        /\ TotalKey(Requested) \in DOMAIN result.properties
        /\ IF GradientCaptured
           THEN result.return_result = output_data["return_result"]
           ELSE /\ result.return_result.type = "float"
                /\ result.return_result.v = result.properties[TotalKey(Requested)].v

\* C6's case: an energy request answered with a captured CCSD total energy.
C6_Witness ==
    /\ Parsed
    /\ input_model.driver = "energy"
    /\ Requested = S_CCSD
    /\ EnergyCaptured
    /\ ~GradientCaptured
    /\ result.kind = "Result"
    /\ result.return_result = properties["ccsd_total_energy"]

\* C7 as stated: with driver gradient a returned Result has a return_result
\* that is a sequence of 3 x (number of atoms) numbers, and the energy under
\* the requested method's total-energy key.
C7_Original ==
    (Parsed /\ input_model.driver = "gradient" /\ result.kind = "Result") =>
        /\ result.return_result.type = "list"
        /\ Len(result.return_result.v) = 3 * AtomCount(input_model)
        /\ TotalKey(Requested) \in DOMAIN result.properties

\* C7, amended: with driver gradient a returned Result has the energy under
\* the requested method's total-energy key; return_result is the last
\* gradient captured from a FORCE step, of whatever length the report gave
\* it (3 x atoms when the report's gradient has that many numbers), and
\* the scalar energy when no gradient was captured.
C7_GradientResult ==
    (Parsed /\ input_model.driver = "gradient" /\ result.kind = "Result") =>
        /\ TotalKey(Requested) \in DOMAIN result.properties
        /\ result.properties[TotalKey(Requested)].type = "float"
        /\ IF GradientCaptured
           THEN /\ result.return_result.type = "list"
                /\ result.return_result.v = output_data["return_result"].v
           ELSE /\ result.return_result.type = "float"
                /\ result.return_result.v = result.properties[TotalKey(Requested)].v

\* C7's case: a gradient request answered with a gradient of 3 x atoms
\* numbers and an SCF energy in properties.
C7_Witness ==
    /\ Parsed
    /\ input_model.driver = "gradient"
    /\ AtomCount(input_model) = 2
    /\ result.kind = "Result"
    /\ result.return_result.type = "list"
    /\ Len(result.return_result.v) = 6
    /\ "scf_total_energy" \in DOMAIN result.properties

\* C8: in a returned Result, for MP2 and for CCSD, when both the singlet
\* pair energy S and the triplet pair energy T were captured, properties
\* holds same-spin = (2/3)T and opposite-spin = (1/3)T + S, and neither
\* pair energy.
C8_SpinDecomposition ==
    (Parsed /\ result.kind = "Result") =>
        \A k \in {[s |-> "mp2_singlet_pair_energy", t |-> "mp2_triplet_pair_energy",
                   same |-> "mp2_same_spin_correlation_energy",
                   opp |-> "mp2_opposite_spin_correlation_energy"],
                  [s |-> "ccsd_singlet_pair_energy", t |-> "ccsd_triplet_pair_energy",
                   same |-> "ccsd_same_spin_correlation_energy",
                   opp |-> "ccsd_opposite_spin_correlation_energy"]} :
            (k.s \in DOMAIN properties /\ k.t \in DOMAIN properties) =>
                /\ k.same \in DOMAIN result.properties
                /\ k.opp \in DOMAIN result.properties
                /\ 3 * result.properties[k.same].v = 2 * properties[k.t].v
                /\ 3 * result.properties[k.opp].v
                       = properties[k.t].v + 3 * properties[k.s].v
                /\ k.s \notin DOMAIN result.properties
                /\ k.t \notin DOMAIN result.properties

\* C8's case: a Result built from MP2 pair energies S = -1 and T = -2.
C8_Witness ==
    /\ Parsed
    /\ result.kind = "Result"
    /\ "mp2_singlet_pair_energy" \in DOMAIN properties
    /\ "mp2_triplet_pair_energy" \in DOMAIN properties
    /\ properties["mp2_singlet_pair_energy"].v = -3
    /\ properties["mp2_triplet_pair_energy"].v = -6
    /\ result.properties["mp2_same_spin_correlation_energy"].v = -4
    /\ result.properties["mp2_opposite_spin_correlation_energy"].v = -5

\* C9 as stated: a report with a captured gradient but no energy for the
\* requested method (not captured, molecule tag of another method) still
\* gives a Result with the gradient as return_result.
C9_Original ==
    (/\ Parsed
     /\ GradientCaptured
     /\ ~EnergyCaptured
     /\ molecule.method # Requested) =>
        /\ result.kind = "Result"
        /\ result.return_result = output_data["return_result"]

\* C9, amended: such a report is not accepted: parse_output raises the
\* KeyError for the requested method's energy, no Result is built and the
\* captured gradient is returned to nobody.
C9_GradientWithoutEnergy ==
    (/\ Parsed
     /\ GradientCaptured
     /\ ~EnergyCaptured
     /\ molecule.method # Requested) =>
        /\ result.kind = "raise"
        /\ result.exc = "KeyError"
        /\ pc[Main] = "done" => (outcome.kind = "raise" /\ outcome.exc = "KeyError")

\* C9's case: a gradient of six numbers was captured and HF's energy was
\* not to be found.
C9_Witness ==
    /\ pc[Main] = "done"
    /\ GradientCaptured
    /\ Len(output_data["return_result"].v) = 6
    /\ Requested = S_HF
    /\ outcome.kind = "raise"
    /\ outcome.arg = <<Lit("Could not find "), Sub(S_HF), Lit(" total energy")>>

\* C10: with threads racing in get_version for one installation, probes
\* never outnumber the lookups that missed, the cache never holds anything
\* but the installation's version, every get_version that returns gives
\* that version, a thread whose probe succeeded leaves the entry in the
\* cache, and a thread that hit the cache or whose probe succeeded returns.
C10_BenignRace ==
    /\ \A p \in Paths :
          /\ probes[p] <= misses[p]
          /\ p \in DOMAIN version_cache => version_cache[p] = Expected(p)
    /\ \A t \in Threads :
          /\ got[t].kind = "return" => got[t].value = Expected(which_prog[t])
          /\ (/\ probe[t].kind = "proc"
              /\ probe[t].success
              /\ pc[t] \in {"gv_return", "gv_caller", "done"}) =>
                which_prog[t] \in DOMAIN version_cache
          /\ (/\ pc[t] \in {"gv_caller", "done"}
              /\ (probe[t].kind = "proc" => probe[t].success)) =>
                got[t].kind = "return"

\* C10's case: two threads both missed, both probed, and both returned the
\* one version.
C10_Witness ==
    \E p \in Paths :
        /\ probes[p] = 2
        /\ version_cache = [q \in {p} |-> Expected(p)]
        /\ \A t \in {1, 2} :
              /\ pc[t] = "done"
              /\ probe[t].kind = "proc"
              /\ probe[t].success
              /\ got[t] = Return(Expected(p))

====
